---- MODULE Spec2Model ----
(***************************************************************************)
(* FontCrawler: the entry pipeline, the aggregation map and the            *)
(* asynchronous schedulers of the three revisions in the repository.       *)
(*                                                                         *)
(*   variant "time"  : src/font-crawler.js (asyncIntervalDuration budget,  *)
(*                     isPending, clear, deferred entry collection)        *)
(*   variant "count" : src/unnamed/part_000, lines 1-321 (asyncMax budget) *)
(*   variant "mid"   : src/unnamed/part_000, lines 323-920 (the revision   *)
(*                     between the two: time budget, isPending, clear)     *)
(*                                                                         *)
(* The host is single threaded: an API call or a frame callback runs to    *)
(* its end before anything else starts.  A slice callback is modelled one  *)
(* entry at a time; while it runs (running # 0) no other action is enabled.*)
(***************************************************************************)
EXTENDS Integers, Sequences, FiniteSets, TLC

VARIABLES
    variant,         \* which revision of the library is loaded
    dom,             \* the host tree: [target, found, throwsFor]
    opts,            \* this._options
    frameInterval,   \* this.__frameInterval (0: undefined)
    frameTimestamp,  \* this.__frameTimestamp is set (0: undefined)
    sinceStart,      \* milliseconds the host clock has advanced since
                     \* this.__frameTimestamp was set (0 while it is undefined)
    rafQueue,        \* the host's list of animation frame callbacks
    nextHandle,      \* the next request id requestAnimationFrame returns
    crawls,          \* per accepted crawlAsync call: its closure state
    running,         \* the crawl whose slice callback is executing (0: none)
    sliceDone,       \* local variable done of the count-budgeted slice
    ret,             \* what the API call of the last step did for its caller
                     \* (NoRet when the last step was a frame callback's)
    measured,        \* the delay _crawlAsyncRecursion computed in the last step
                     \* (NoMeasure when the last step computed none)
    destroyed        \* destroy() was called: this._options is deleted (and
                     \* this._target, where destroy deletes it)

vars == <<variant, dom, opts, frameInterval, frameTimestamp, sinceStart, rafQueue,
          nextHandle, crawls, running, sliceDone, ret, measured, destroyed>>

-----------------------------------------------------------------------------
(* Bounds of the model *)

\* elements querySelectorAll returns at most
MaxFound == 1
\* crawlAsync calls that are accepted at most
MaxCrawls == 2

-----------------------------------------------------------------------------
(* Strings.  A string is the sequence of its character codes, so that the  *)
(* default Array.prototype.sort order (code unit order) can be computed.   *)

CharI == 105

W400 == <<52, 48, 48>>
W700 == <<55, 48, 48>>
W1000 == <<49, 48, 48, 48>>

RECURSIVE StrLess(_, _)
StrLess(a, b) ==
    IF b = <<>> THEN FALSE
    ELSE IF a = <<>> THEN TRUE
    ELSE IF Head(a) # Head(b) THEN Head(a) < Head(b)
    ELSE StrLess(Tail(a), Tail(b))

\* the position of x in s, as Array.prototype.indexOf; -1 when absent
IndexOf(s, x) ==
    IF \E i \in 1..Len(s) : s[i] = x
    THEN (CHOOSE i \in 1..Len(s) : s[i] = x /\ \A j \in 1..(i-1) : s[j] # x) - 1
    ELSE -1

RECURSIVE InsertSorted(_, _)
InsertSorted(s, x) ==
    IF s = <<>> THEN <<x>>
    ELSE IF StrLess(x, Head(s)) THEN <<x>> \o s
    ELSE <<Head(s)>> \o InsertSorted(Tail(s), x)

\* Array.prototype.sort() with no comparator: ascending by code units
RECURSIVE SortTokens(_)
SortTokens(s) ==
    IF s = <<>> THEN <<>>
    ELSE InsertSorted(SortTokens(Tail(s)), Head(s))

-----------------------------------------------------------------------------
(* The host tree.  Doc is the document the crawler is pointed at; element  *)
(* e is Doc[e].  inc/exc: element.matches of the includeElements and       *)
(* excludeElements selectors; kids: the kinds of its childNodes ("text": a *)
(* text node with non-blank content, "ws": a blank text node, "elem": not  *)
(* a text node); text: its own textContent.trim() is non-empty; css/pcss:  *)
(* what getComputedStyle gives for the element and for a pseudo-element.   *)

Css(f, w, s) == [fontFamily |-> f, fontWeight |-> w, fontStyle |-> s]

Doc == <<
    [inc |-> FALSE, exc |-> FALSE, kids |-> <<"ws", "elem", "ws">>, text |-> TRUE,
     css |-> Css("Georgia", W700, "normal"), pcss |-> Css("Georgia", W400, "normal")],
    [inc |-> FALSE, exc |-> FALSE, kids |-> <<"text">>, text |-> TRUE,
     css |-> Css("Georgia", W400, "italic"), pcss |-> Css("Arial", W700, "italic")],
    [inc |-> TRUE, exc |-> TRUE, kids |-> <<>>, text |-> FALSE,
     css |-> Css("Arial", W1000, "normal"), pcss |-> Css("Georgia", W1000, "oblique")],
    [inc |-> FALSE, exc |-> TRUE, kids |-> <<"text">>, text |-> TRUE,
     css |-> Css("monospace", W400, "normal"), pcss |-> Css("monospace", W400, "normal")],
    [inc |-> FALSE, exc |-> FALSE, kids |-> <<"elem">>, text |-> TRUE,
     css |-> Css("Arial", W400, "normal"), pcss |-> Css("Arial", W400, "normal")],
    [inc |-> FALSE, exc |-> FALSE, kids |-> <<"elem", "ws">>, text |-> FALSE,
     css |-> Css("Arial", W700, "normal"), pcss |-> Css("Arial", W700, "normal")],
    [inc |-> FALSE, exc |-> FALSE, kids |-> <<"text">>, text |-> TRUE,
     css |-> Css("constructor", W400, "normal"),
     pcss |-> Css("constructor", W400, "normal")]
>>

Target == 1
Descendants == 2..Len(Doc)

IsInjective(s) == \A i, j \in 1..Len(s) : s[i] = s[j] => i = j

\* sequences over S without repetition, of length at most n
RECURSIVE SeqsNoDup(_, _)
SeqsNoDup(S, n) ==
    IF n = 0 THEN {<<>>}
    ELSE LET shorter == SeqsNoDup(S, n - 1)
         IN  shorter \cup {t \in {Append(s, x) : s \in shorter, x \in S} : IsInjective(t)}

Null == <<>>

Entry(e, p) == [el |-> e, pseudo |-> p]

\* window.getComputedStyle(element, pseudo)
GetComputedStyle(e, p) == IF p = Null THEN Doc[e].css ELSE Doc[e].pcss

-----------------------------------------------------------------------------
(* AggregationMap: _handleSource *)

EmptyMap == [f \in {} |-> <<>>]

\* css.fontWeight + (css.fontStyle === "normal" ? "" : "i")
Token(css) == css.fontWeight \o (IF css.fontStyle = "normal" THEN <<>> ELSE <<CharI>>)

\* the exclusion test of font-crawler.js; part_000 has no such option
IsExcludedFamily(v, o, family) ==
    /\ v = "time"
    /\ o.excludeFontFamilies.isArray
    /\ IndexOf(o.excludeFontFamilies.items, family) # -1

\* the property names every object inherits from Object.prototype (one of
\* them stands for all)
InheritedKeys == {"constructor"}

\* css.fontFamily in source
HasKey(source, key) == key \in DOMAIN source \/ key \in InheritedKeys

\* source[css.fontFamily] is an inherited member, not an array: calling its
\* indexOf throws
HandleSourceThrows(v, o, css) ==
    /\ ~IsExcludedFamily(v, o, css.fontFamily)
    /\ css.fontFamily \in InheritedKeys

\* faulty variant: the token is pushed and the sequence is left as it is
PushNoSort(tokens, map) == Append(tokens, map)

\* source[family].push(map); source[family].sort();
PushAndSort(tokens, map) == SortTokens(Append(tokens, map))

\* faulty variant: the family key is created before the exclusion test
HandleSourceKeyFirst(v, o, css, source) ==
    LET map == Token(css)
        withKey == IF css.fontFamily \in DOMAIN source
                   THEN source
                   ELSE source @@ (css.fontFamily :> <<>>)
    IN  IF IsExcludedFamily(v, o, css.fontFamily) THEN withKey
        ELSE IF IndexOf(withKey[css.fontFamily], map) = -1
        THEN [withKey EXCEPT ![css.fontFamily] = PushAndSort(@, map)]
        ELSE withKey

\* _handleSource (a call that throws leaves source as it was)
HandleSource(v, o, css, source) ==
    IF IsExcludedFamily(v, o, css.fontFamily) THEN source
    ELSE IF HandleSourceThrows(v, o, css) THEN source
    ELSE LET map == Token(css)
             withKey == IF HasKey(source, css.fontFamily)
                        THEN source
                        ELSE source @@ (css.fontFamily :> <<>>)
         IN  IF IndexOf(withKey[css.fontFamily], map) = -1
             THEN [withKey EXCEPT ![css.fontFamily] = PushAndSort(@, map)]
             ELSE withKey

\* _handleEntry, _handleElement: sample the entry and record it
HandleEntry(v, o, entry, source) ==
    HandleSource(v, o, GetComputedStyle(entry.el, entry.pseudo), source)

\* entries.reduce(function(carry, entry) { return _handleEntry(entry, carry) }, {})
RECURSIVE FoldEntries(_, _, _, _)
FoldEntries(v, o, entries, source) ==
    IF entries = <<>> THEN source
    ELSE FoldEntries(v, o, Tail(entries), HandleEntry(v, o, Head(entries), source))

-----------------------------------------------------------------------------
(* Pseudo-element names.  An option string is the sequence of its lexemes: *)
(* a word ("before"), ",", ":" or " ".                                     *)

\* the pieces of s between its "," lexemes: String.prototype.split(",")
RECURSIVE SplitAt(_, _)
SplitAt(s, piece) ==
    IF s = <<>> THEN <<piece>>
    ELSE IF Head(s) = "," THEN <<piece>> \o SplitAt(Tail(s), <<>>)
    ELSE SplitAt(Tail(s), Append(piece, Head(s)))

RECURSIVE DropLeading(_, _)
DropLeading(s, c) ==
    IF s # <<>> /\ Head(s) = c THEN DropLeading(Tail(s), c) ELSE s

RECURSIVE DropTrailing(_, _)
DropTrailing(s, c) ==
    IF s # <<>> /\ s[Len(s)] = c THEN DropTrailing(SubSeq(s, 1, Len(s) - 1), c) ELSE s

\* s.split(/\s*,\s*/): the blanks around each comma go with the separator
SplitCommaBlank(s) ==
    LET pieces == SplitAt(s, <<>>)
        n == Len(pieces)
    IN  [i \in 1..n |->
            LET left == IF i > 1 THEN DropLeading(pieces[i], " ") ELSE pieces[i]
            IN  IF i < n THEN DropTrailing(left, " ") ELSE left]

\* s.replace(/[^\w\-,]/g, "")
StripNonWord(s) == SelectSeq(s, LAMBDA c : c \notin {":", " "})

\* "::" + pseudo.replace(/^:+/, "")
PseudoSelector(pseudo) == <<":", ":">> \o DropLeading(pseudo, ":")

\* "::" + pseudo
PseudoSelectorRaw(pseudo) == <<":", ":">> \o pseudo

RECURSIVE Flatten(_)
Flatten(ss) == IF ss = <<>> THEN <<>> ELSE Head(ss) \o Flatten(Tail(ss))

-----------------------------------------------------------------------------
(* What a stage hands on: an array, undefined, or nothing because a        *)
(* TypeError was thrown                                                    *)

ArrayValue(items) == [type |-> "array", items |-> items]
UndefinedValue == [type |-> "undefined", items |-> <<>>]
Thrown == [type |-> "throws", items |-> <<>>]

\* what dereferencing undefined throws
JsTypeError == "TypeError"

-----------------------------------------------------------------------------
(* EntryPipeline of src/font-crawler.js *)

\* _querySelectorElements
QuerySelectorElements(d, o) ==
    IF o.includeTarget THEN <<d.target>> \o d.found ELSE d.found

\* _hasTextNodeChild, from child i on
RECURSIVE HasTextNodeChildFrom(_, _)
HasTextNodeChildFrom(e, i) ==
    IF i > Len(Doc[e].kids) THEN FALSE
    ELSE IF Doc[e].kids[i] = "elem" THEN HasTextNodeChildFrom(e, i + 1)
    ELSE IF Doc[e].kids[i] = "text" THEN TRUE
    ELSE IF Doc[e].text THEN TRUE
    ELSE HasTextNodeChildFrom(e, i + 1)

HasTextNodeChild(e) == HasTextNodeChildFrom(e, 1)

\* faulty variant: the exclude selector is tried before the include selector
KeepElementExcludeFirst(e, o) ==
    IF o.excludeElements /\ Doc[e].exc THEN FALSE
    ELSE IF o.includeElements /\ Doc[e].inc THEN TRUE
    ELSE HasTextNodeChild(e)

\* the predicate of _filterElements
KeepElement(e, o) ==
    IF o.includeElements /\ Doc[e].inc THEN TRUE
    ELSE IF o.excludeElements /\ Doc[e].exc THEN FALSE
    ELSE HasTextNodeChild(e)

\* _filterElements
FilterElements(elements, o) == SelectSeq(elements, LAMBDA e : KeepElement(e, o))

\* _mapElementsAsEntries
MapElementsAsEntries(elements) == [i \in 1..Len(elements) |-> Entry(elements[i], Null)]

\* the names an option value (or a callback's return value) stands for
PseudoNames(val) ==
    IF val.type = "string" THEN SplitCommaBlank(val.str)
    ELSE IF val.type = "array" THEN val.items
    ELSE <<>>

\* result.push(entry); names.forEach(pseudo => result.push([entry[0], "::" + ...]))
ExpandEntry(entry, names) ==
    <<entry>> \o [i \in 1..Len(names) |-> Entry(entry.el, PseudoSelector(names[i]))]

\* the shapes of usePseudoElement for which _usePseudoElementEntries has a
\* return statement: a falsy value, a string, an array, a function
HandledShapes == {"null", "string", "array", "function"}

\* _usePseudoElementEntries: the array it builds (none for a value of another
\* shape, for which the function runs off its end)
UsePseudoElementEntries(entries, o) ==
    LET use == o.usePseudoElement
    IN  IF use.type = "null" THEN entries
        ELSE IF use.type \in {"string", "array"}
        THEN Flatten([i \in 1..Len(entries) |-> ExpandEntry(entries[i], PseudoNames(use))])
        ELSE IF use.type = "function"
        THEN Flatten([i \in 1..Len(entries) |->
                         ExpandEntry(entries[i], PseudoNames(use.returns[entries[i].el]))])
        ELSE <<>>

\* _usePseudoElementEntries: what it returns
UsePseudoElementValue(entries, o) ==
    IF o.usePseudoElement.type \in HandledShapes
    THEN ArrayValue(UsePseudoElementEntries(entries, o))
    ELSE UndefinedValue

\* filter.call(this, entry[0], entry[1])
CallFilter(o, entry) == entry \notin o.filter.rejects

\* _filterEntries
FilterEntries(entries, o) ==
    IF o.filter.type = "function"
    THEN SelectSeq(entries, LAMBDA entry : CallFilter(o, entry))
    ELSE entries

\* the (element, pseudo) pairs _filterEntries calls the predicate with
PredicateCalls(entries, o) ==
    IF o.filter.type = "function" THEN entries ELSE <<>>

\* faulty variant: the entry filter runs before the pseudo-element expansion
GetEntriesFilterFirst(d, o) ==
    UsePseudoElementEntries(
        FilterEntries(
            MapElementsAsEntries(FilterElements(QuerySelectorElements(d, o), o)), o), o)

\* _getEntries
GetEntries(d, o) ==
    FilterEntries(
        UsePseudoElementEntries(
            MapElementsAsEntries(FilterElements(QuerySelectorElements(d, o), o)), o), o)

\* _filterEntries on what _usePseudoElementEntries returned: entries.filter
\* of undefined throws, and without a predicate undefined is handed on
FilterEntriesValue(val, o) ==
    IF o.filter.type # "function" THEN val
    ELSE IF val.type = "array" THEN ArrayValue(FilterEntries(val.items, o))
    ELSE Thrown

\* _getEntries: what it returns
GetEntriesValue(d, o) ==
    FilterEntriesValue(
        UsePseudoElementValue(
            MapElementsAsEntries(FilterElements(QuerySelectorElements(d, o), o)), o), o)

-----------------------------------------------------------------------------
(* EntryPipeline of src/unnamed/part_000 (lines 1-321) *)

\* _hasTextNodeChild
HasTextNodeChildSimple(e) ==
    \E i \in 1..Len(Doc[e].kids) : Doc[e].kids[i] \in {"text", "ws"}

\* the names of usePseudoElements
PseudoElementsList(o) ==
    IF o.usePseudoElement.type = "null" THEN <<>>
    ELSE SplitAt(StripNonWord(o.usePseudoElement.str), <<>>)

\* the predicate of the filter step
KeepEntrySimple(entry, o) ==
    IF o.useTextNodesOnly /\ ~HasTextNodeChildSimple(entry.el) THEN FALSE
    ELSE IF o.filter.type = "function" THEN CallFilter(o, entry)
    ELSE TRUE

\* the pairs the filter step calls the predicate with: those that passed
\* the text-node test
PredicateCallsSimple(entries, o) ==
    IF o.filter.type = "function"
    THEN SelectSeq(entries,
                   LAMBDA entry : ~(o.useTextNodesOnly /\ ~HasTextNodeChildSimple(entry.el)))
    ELSE <<>>

\* _elementWithPseudoEntries
ElementWithPseudoEntries(d, o) ==
    LET elements == QuerySelectorElements(d, o)
        names == PseudoElementsList(o)
        expanded == Flatten([i \in 1..Len(elements) |->
                        <<Entry(elements[i], Null)>> \o
                        [j \in 1..Len(names) |-> Entry(elements[i], PseudoSelectorRaw(names[j]))]])
    IN  SelectSeq(expanded, LAMBDA entry : KeepEntrySimple(entry, o))

-----------------------------------------------------------------------------
(* EntryPipeline of the intermediate revision, src/unnamed/part_000 (lines *)
(* 323-920)                                                                *)

\* _filterElements
FilterElementsMid(elements, o) ==
    IF o.useTextNodesOnly
    THEN SelectSeq(elements, LAMBDA e : HasTextNodeChildSimple(e))
    ELSE elements

\* the reduce callback of _addPseudoEntries: carry.push(entry) and one push
\* for each name, "::" + pseudo; the function has no return statement
AddPseudoCallback(carry, entry, names) ==
    IF carry.type # "array" THEN Thrown
    ELSE LET pushed == ArrayValue(carry.items \o <<entry>> \o
                 [j \in 1..Len(names) |-> Entry(entry.el, PseudoSelectorRaw(names[j]))])
         IN  UndefinedValue

\* entries.reduce(callback, carry)
RECURSIVE AddPseudoReduce(_, _, _)
AddPseudoReduce(entries, names, carry) ==
    IF entries = <<>> THEN carry
    ELSE IF carry.type = "throws" THEN Thrown
    ELSE AddPseudoReduce(Tail(entries), names, AddPseudoCallback(carry, Head(entries), names))

\* _addPseudoEntries
AddPseudoEntries(entries, o) ==
    IF o.usePseudoElement.type = "null" THEN ArrayValue(entries)
    ELSE IF o.usePseudoElement.type # "string" THEN Thrown
    ELSE AddPseudoReduce(entries, SplitAt(StripNonWord(o.usePseudoElement.str), <<>>),
                         ArrayValue(<<>>))

\* _filterEntries on what _addPseudoEntries returned
FilterEntriesMid(val, o) ==
    IF val.type = "throws" THEN Thrown
    ELSE IF o.filter.type # "function" THEN val
    ELSE IF val.type = "array"
    THEN ArrayValue(SelectSeq(val.items, LAMBDA entry : CallFilter(o, entry)))
    ELSE Thrown

\* _getEntries
GetEntriesMid(d, o) ==
    FilterEntriesMid(
        AddPseudoEntries(
            MapElementsAsEntries(FilterElementsMid(QuerySelectorElements(d, o), o)), o), o)

\* the entry sequence a crawl works through
PipelineEntries(v, d, o) ==
    IF v = "time" THEN GetEntries(d, o)
    ELSE IF v = "count" THEN ElementWithPseudoEntries(d, o)
    ELSE GetEntriesMid(d, o).items

\* crawl(): the map it returns
Crawl(v, d, o) == FoldEntries(v, o, PipelineEntries(v, d, o), EmptyMap)

-----------------------------------------------------------------------------
(* Option values *)

\* a JavaScript number: an integer or NaN
Num(n) == [nan |-> FALSE, n |-> n]
NaN == [nan |-> TRUE, n |-> 0]

AsyncIntervalDurationDefault == 16
AsyncMaxDefault == 1000

NullOption == [type |-> "null"]
StringOption(str) == [type |-> "string", str |-> str]
FilterOption(rejects) == [type |-> "function", rejects |-> rejects]
NoFamilies == [isArray |-> FALSE, items |-> <<>>]
Families(items) == [isArray |-> TRUE, items |-> items]

ArrayOption(items) == [type |-> "array", items |-> items]
CallbackOption(returns) == [type |-> "function", returns |-> returns]

\* a truthy value that is no string, no array and no function: true, 1, {}
OtherOption == [type |-> "other"]

PseudoOptions == {NullOption, StringOption(<<":", "before">>)}

\* usePseudoElement as a list: ["before", ":after"]
PseudoList == ArrayOption(<<(<<"before">>), (<<":", "after">>)>>)

\* usePseudoElement as a callback: it returns "before" for the target,
\* [":after"] for the text element, true for the form control and null for
\* every other element
PseudoCallback ==
    CallbackOption([e \in 1..Len(Doc) |->
        IF e = Target THEN StringOption(<<"before">>)
        ELSE IF e = 2 THEN ArrayOption(<<(<<":", "after">>)>>)
        ELSE IF e = 3 THEN OtherOption
        ELSE NullOption])

\* the shapes of the option other than none and a string
ShapedPseudoOptions == {PseudoList, PseudoCallback, OtherOption}
FilterOptions == {NullOption, FilterOption({Entry(2, Null), Entry(Target, <<":", ":", "before">>)})}

\* asyncIntervalDuration values that are no duration: zero, negative, NaN
InvalidIntervals == {Num(0), Num(0 - 1), NaN}

\* the options font-crawler.js reads
TimeOptions ==
    [includeTarget : {TRUE},
     includeElements : {TRUE},
     excludeElements : {TRUE},
     usePseudoElement : PseudoOptions,
     filter : FilterOptions,
     excludeFontFamilies : {NoFamilies},
     asyncIntervalDuration : {Num(AsyncIntervalDurationDefault)},
     useTextNodesOnly : {TRUE},
     asyncMax : {Num(AsyncMaxDefault)}]
    \cup
    [includeTarget : {TRUE},
     includeElements : {TRUE},
     excludeElements : {TRUE},
     usePseudoElement : {StringOption(<<":", "before">>)},
     filter : {NullOption},
     excludeFontFamilies : {Families(<<"Arial">>)},
     asyncIntervalDuration : {Num(AsyncIntervalDurationDefault)},
     useTextNodesOnly : {TRUE},
     asyncMax : {Num(AsyncMaxDefault)}]
    \cup
    [includeTarget : {FALSE},
     includeElements : {TRUE},
     excludeElements : {TRUE},
     usePseudoElement : PseudoOptions,
     filter : {NullOption},
     excludeFontFamilies : {NoFamilies},
     asyncIntervalDuration : {Num(AsyncIntervalDurationDefault)},
     useTextNodesOnly : {TRUE},
     asyncMax : {Num(AsyncMaxDefault)}]
    \cup
    [includeTarget : {TRUE},
     includeElements : {TRUE},
     excludeElements : {TRUE},
     usePseudoElement : {NullOption},
     filter : {NullOption},
     excludeFontFamilies : {NoFamilies},
     asyncIntervalDuration : InvalidIntervals,
     useTextNodesOnly : {TRUE},
     asyncMax : {Num(AsyncMaxDefault)}]

\* the options part_000 reads
CountOptions ==
    [includeTarget : BOOLEAN,
     includeElements : {TRUE},
     excludeElements : {TRUE},
     usePseudoElement : PseudoOptions,
     filter : FilterOptions,
     excludeFontFamilies : {NoFamilies},
     asyncIntervalDuration : {Num(AsyncIntervalDurationDefault)},
     useTextNodesOnly : BOOLEAN,
     asyncMax : {Num(0), Num(0 - 1), NaN, Num(1), Num(2)}]

\* the options the intermediate revision of part_000 reads
MidOptions ==
    [includeTarget : BOOLEAN,
     includeElements : {TRUE},
     excludeElements : {TRUE},
     usePseudoElement : PseudoOptions,
     filter : {NullOption},
     excludeFontFamilies : {NoFamilies},
     asyncIntervalDuration : {Num(AsyncIntervalDurationDefault)},
     useTextNodesOnly : {TRUE},
     asyncMax : {Num(AsyncMaxDefault)}]

\* font-crawler.js with usePseudoElement of every other shape
ShapedOptions ==
    [includeTarget : BOOLEAN,
     includeElements : {TRUE},
     excludeElements : {TRUE},
     usePseudoElement : ShapedPseudoOptions,
     filter : FilterOptions,
     excludeFontFamilies : {NoFamilies},
     asyncIntervalDuration : {Num(AsyncIntervalDurationDefault)},
     useTextNodesOnly : {TRUE},
     asyncMax : {Num(AsyncMaxDefault)}]

\* the intermediate revision with usePseudoElements a list or another value
\* that is no string
ShapedOptionsMid ==
    [includeTarget : BOOLEAN,
     includeElements : {TRUE},
     excludeElements : {TRUE},
     usePseudoElement : {PseudoList, OtherOption},
     filter : {NullOption},
     excludeFontFamilies : {NoFamilies},
     asyncIntervalDuration : {Num(AsyncIntervalDurationDefault)},
     useTextNodesOnly : {TRUE},
     asyncMax : {Num(AsyncMaxDefault)}]

\* option strings naming two pseudo-elements: "before,after", "before, :after"
TwoPseudoOptions == {StringOption(<<"before", ",", "after">>),
                     StringOption(<<"before", ",", " ", ":", "after">>)}

\* the options crawl() is run with: those above, and two pseudo-element names
\* with and without an entry filter
PipelineOptions(v) ==
    LET base == IF v = "time" THEN TimeOptions \cup ShapedOptions
                ELSE IF v = "count" THEN CountOptions
                ELSE MidOptions \cup ShapedOptionsMid
        more == [includeTarget : BOOLEAN,
                 includeElements : {TRUE},
                 excludeElements : {TRUE},
                 usePseudoElement : TwoPseudoOptions,
                 filter : FilterOptions,
                 excludeFontFamilies : {NoFamilies},
                 asyncIntervalDuration : {Num(AsyncIntervalDurationDefault)},
                 useTextNodesOnly : BOOLEAN,
                 asyncMax : {Num(AsyncMaxDefault)}]
    IN  base \cup more

\* the trees the schedulers are run on: what querySelectorAll returns is drawn
\* from the text element and the form control, and getComputedStyle does not
\* throw
Trees == [target : {Target}, found : SeqsNoDup({2, 3}, MaxFound), throwsFor : {0}]

\* the trees the entry pipeline is run on: every kind of element, and
\* getComputedStyle throwing for none or for one of them
AllTrees == [target : {Target}, found : SeqsNoDup(Descendants, MaxFound),
             throwsFor : 0..Len(Doc)]

-----------------------------------------------------------------------------
(* The host's animation frames *)

Frame(id, kind, c, arg) == [id |-> id, kind |-> kind, crawl |-> c, arg |-> arg]

\* the part of the state a callback chain threads through
Machine == [q |-> rafQueue, fi |-> frameInterval, ts |-> frameTimestamp,
            since |-> sinceStart, h |-> nextHandle, cr |-> crawls]

\* window.requestAnimationFrame(callback)
RequestAnimationFrame(m, kind, c, arg) ==
    [m EXCEPT !.q = Append(@, Frame(m.h, kind, c, arg)), !.h = @ + 1]

\* window.cancelAnimationFrame(requestID)
CancelAnimationFrame(q, id) == SelectSeq(q, LAMBDA f : f.id # id)

\* faulty variant: with no request remembered the oldest one is cancelled
ClearMOldest(m) ==
    [m EXCEPT !.q = IF m.fi # 0 THEN CancelAnimationFrame(@, m.fi)
                    ELSE IF @ # <<>> THEN Tail(@) ELSE @,
              !.ts = 0,
              !.since = 0,
              !.fi = 0]

\* clear
ClearM(m) ==
    [m EXCEPT !.q = IF m.fi # 0 THEN CancelAnimationFrame(@, m.fi) ELSE @,
              !.ts = 0,
              !.since = 0,
              !.fi = 0]

\* isPending
IsPending == frameInterval # 0

\* _crawlAsyncRequestFrame
CrawlAsyncRequestFrame(m, c, entries) ==
    LET m1 == RequestAnimationFrame(m, "slice", c, <<>>)
    IN  [m1 EXCEPT !.fi = m.h, !.cr[c].entries = entries]

\* _filterEntriesAsync and the callback of crawlAsync
FilterEntriesAsync(m, c, entries, o) ==
    IF o.filter.type = "function"
    THEN RequestAnimationFrame(m, "filterEntries", c, entries)
    ELSE CrawlAsyncRequestFrame(m, c, FilterEntries(entries, o))

\* _usePseudoElementEntriesAsync
UsePseudoElementEntriesAsync(m, c, entries, o) ==
    IF o.usePseudoElement.type # "null"
    THEN RequestAnimationFrame(m, "pseudo", c, entries)
    ELSE FilterEntriesAsync(m, c, UsePseudoElementEntries(entries, o), o)

\* the frame of _usePseudoElementEntriesAsync: what the stage returned is
\* handed to _filterEntriesAsync
UsePseudoElementFrame(m, c, entries, o) ==
    LET val == UsePseudoElementValue(entries, o)
    IN  FilterEntriesAsync([m EXCEPT !.cr[c].undefinedEntries = (val.type = "undefined")],
                           c, val.items, o)

\* the frame of _filterEntriesAsync: entries.filter of undefined throws and
\* the chain ends
FilterEntriesFrame(m, c, entries, o) ==
    IF m.cr[c].undefinedEntries THEN m
    ELSE CrawlAsyncRequestFrame(m, c, FilterEntries(entries, o))

\* _mapElementsAsEntriesAsync: never delayed
MapElementsAsEntriesAsync(m, c, elements, o) ==
    UsePseudoElementEntriesAsync(m, c, MapElementsAsEntries(elements), o)

\* _filterElementsAsync: always delayed
FilterElementsAsync(m, c, elements) ==
    RequestAnimationFrame(m, "filterElements", c, elements)

\* _querySelectorElementsAsync: always delayed
QuerySelectorElementsAsync(m, c) == RequestAnimationFrame(m, "query", c, <<>>)

\* the intermediate revision: _crawlAsyncRequestFrame with what the pipeline
\* handed on
CrawlAsyncRequestFrameMid(m, c, val) ==
    LET m1 == RequestAnimationFrame(m, "slice", c, <<>>)
    IN  [m1 EXCEPT !.fi = m.h,
                   !.cr[c].entries = val.items,
                   !.cr[c].undefinedEntries = (val.type = "undefined")]

\* _filterEntriesAsync and the callback of crawlAsync
FilterEntriesAsyncMid(m, c, val, o) ==
    IF o.filter.type = "function"
    THEN RequestAnimationFrame(m, "filterEntries", c, val)
    ELSE CrawlAsyncRequestFrameMid(m, c, FilterEntriesMid(val, o))

\* _addPseudoEntriesAsync: delayed iff usePseudoElements is set
AddPseudoEntriesAsync(m, c, entries, o) ==
    IF o.usePseudoElement.type # "null"
    THEN RequestAnimationFrame(m, "pseudo", c, entries)
    ELSE FilterEntriesAsyncMid(m, c, AddPseudoEntries(entries, o), o)

\* _mapElementsAsEntriesAsync: never delayed
MapElementsAsEntriesAsyncMid(m, c, elements, o) ==
    AddPseudoEntriesAsync(m, c, MapElementsAsEntries(elements), o)

\* _filterElementsAsync: delayed iff useTextNodesOnly
FilterElementsAsyncMid(m, c, elements, o) ==
    IF o.useTextNodesOnly
    THEN RequestAnimationFrame(m, "filterElements", c, elements)
    ELSE MapElementsAsEntriesAsyncMid(m, c, FilterElementsMid(elements, o), o)

\* faulty variant: the crawl is cleared and its callback is never dispatched
CrawlAsyncClearNoCallback(m, c) == ClearM(m)

\* _crawlAsyncClear
CrawlAsyncClear(m, c) == RequestAnimationFrame(ClearM(m), "done", c, <<>>)

\* the callback handed to crawlAsync is called with the map
InvokeOnDone(cr, c) ==
    [cr EXCEPT ![c].done = @ + 1, ![c].result = cr[c].source]

\* entries, source: the arrays the crawl's callbacks close over; sampled: the
\* entries handed to getComputedStyle so far; done, result: the calls of its
\* callback and the map they passed; cleared: where it stood at the first
\* clear() made after it started ("pending": its queue not yet exhausted,
\* "completing": its completion dispatched and not yet run)
\* undefinedEntries: what the expansion stage handed on is undefined, not an
\* array
NewCrawl == [entries |-> <<>>, source |-> EmptyMap, sampled |-> <<>>,
             done |-> 0, result |-> EmptyMap, cleared |-> "no",
             undefinedEntries |-> FALSE]

StageKinds == {"query", "filterElements", "pseudo", "filterEntries"}
SliceKinds == {"slice", "recursive"}

HasFrame(q, c, kinds) == \E i \in 1..Len(q) : q[i].crawl = c /\ q[i].kind \in kinds

\* where crawl c stands, given the frame list q and the running slice r
Phase(q, r, c) ==
    IF HasFrame(q, c, StageKinds) THEN "collecting"
    ELSE IF r = c \/ HasFrame(q, c, SliceKinds) THEN "slicing"
    ELSE IF HasFrame(q, c, {"done"}) THEN "completing"
    ELSE "over"

\* crawlAsync has returned for c and its queue is not exhausted nor cancelled
InFlight(q, r, c) == Phase(q, r, c) \in {"collecting", "slicing"}

\* clear() was called: note where each crawl stood
NoteCleared(m) ==
    [m EXCEPT !.cr = [c \in 1..Len(m.cr) |->
        IF m.cr[c].cleared = "no" /\ Phase(rafQueue, running, c) # "over"
        THEN [m.cr[c] EXCEPT !.cleared =
                 IF InFlight(rafQueue, running, c) THEN "pending" ELSE "completing"]
        ELSE m.cr[c]]]

\* op, out: the call and how it ended ("ok", "busy": _checkBusy threw,
\* "throws": a host call threw); map: the map returned; sampled: the entries
\* handed to getComputedStyle; failed: the position at which sampling
\* threw (0: nowhere); thrown: what the caller caught
BusyMessage == "FontCrawler: FontCrawler is busy."
NoRet == [op |-> "none", out |-> "none", map |-> EmptyMap, sampled |-> <<>>,
          failed |-> 0, thrown |-> "none"]
Ret(op, out) == [op |-> op, out |-> out, map |-> EmptyMap, sampled |-> <<>>,
                 failed |-> 0, thrown |-> IF out = "busy" THEN BusyMessage ELSE "none"]

\* what sampling throws when it throws
HostError == "TypeError"

\* delay = now - start, in milliseconds
NoMeasure == [taken |-> FALSE, delay |-> 0]
Measure(delay) == [taken |-> TRUE, delay |-> delay]

SetMachine(m) ==
    /\ rafQueue' = m.q
    /\ frameInterval' = m.fi
    /\ frameTimestamp' = m.ts
    /\ sinceStart' = m.since
    /\ nextHandle' = m.h
    /\ crawls' = m.cr

-----------------------------------------------------------------------------
(* The state machine *)

Init ==
    /\ variant \in {"time", "count"}
    /\ dom \in Trees
    /\ opts \in IF variant = "time" THEN TimeOptions ELSE CountOptions
    /\ frameInterval = 0
    /\ frameTimestamp = 0
    /\ sinceStart = 0
    /\ rafQueue = <<>>
    /\ nextHandle = 1
    /\ crawls = <<>>
    /\ running = 0
    /\ sliceDone = 0
    /\ ret = NoRet
    /\ measured = NoMeasure
    /\ destroyed = FALSE

\* _checkBusy throws
Busy == variant # "count" /\ IsPending

\* faulty variant: the count is one more than configured
AsyncMaxCountPlusOne(o) ==
    IF o.asyncMax.nan \/ o.asyncMax.n = 0 \/ o.asyncMax.n < 0
    THEN AsyncMaxDefault
    ELSE o.asyncMax.n + 1

\* faulty variant: the configured count is used as it is, zero for a value
\* that is no count
AsyncMaxCountAsConfigured(o) ==
    IF o.asyncMax.nan \/ o.asyncMax.n < 0 THEN 0 ELSE o.asyncMax.n

\* the count of part_000's crawlAsync
AsyncMaxCount(o) ==
    IF o.asyncMax.nan \/ o.asyncMax.n = 0 \/ o.asyncMax.n < 0
    THEN AsyncMaxDefault
    ELSE o.asyncMax.n

\* crawlAsync(callback)
CrawlAsync ==
    /\ running = 0
    /\ ~destroyed
    /\ IF Busy
       THEN /\ ret' = Ret("crawlAsync", "busy")
            /\ UNCHANGED <<rafQueue, frameInterval, frameTimestamp, sinceStart, nextHandle, crawls>>
       ELSE /\ Len(crawls) < MaxCrawls
            /\ LET c == Len(crawls) + 1
                   m == [Machine EXCEPT !.cr = Append(@, NewCrawl)]
               IN  IF variant # "count"
                   THEN SetMachine(QuerySelectorElementsAsync(m, c))
                   ELSE SetMachine(RequestAnimationFrame(
                            [m EXCEPT !.cr[c].entries = ElementWithPseudoEntries(dom, opts)],
                            "recursive", c, <<>>))
            /\ ret' = Ret("crawlAsync", "ok")
    /\ measured' = NoMeasure
    /\ UNCHANGED <<variant, dom, opts, destroyed, running, sliceDone>>

\* _handleElement throws for the entry: in getComputedStyle or in _handleSource
SamplingThrows(v, o, d, entry) ==
    \/ entry.el = d.throwsFor
    \/ HandleSourceThrows(v, o, GetComputedStyle(entry.el, entry.pseudo))

\* the first position of entries at which sampling throws (0: none)
FirstFailing(v, o, entries, d) ==
    LET failing == {i \in 1..Len(entries) : SamplingThrows(v, o, d, entries[i])}
    IN  IF failing = {} THEN 0 ELSE CHOOSE i \in failing : \A j \in failing : i <= j

\* faulty variant: an entry whose sampling throws is skipped
CrawlOutcomeSkip(v, d, o) ==
    LET entries == PipelineEntries(v, d, o)
        failAt == FirstFailing(v, o, entries, d)
        rest == SelectSeq(entries, LAMBDA entry : entry.el # d.throwsFor)
    IN  [op |-> "crawl", out |-> "ok", sampled |-> entries, failed |-> failAt,
         thrown |-> "none", map |-> FoldEntries(v, o, rest, EmptyMap)]

\* crawl() past _checkBusy: the reduce ends at the first entry for which
\* getComputedStyle throws, and nothing catches
CrawlOutcome(v, d, o) ==
    LET entries == PipelineEntries(v, d, o)
        failAt == FirstFailing(v, o, entries, d)
    IN  IF \/ v = "mid" /\ GetEntriesMid(d, o).type # "array"
           \/ v = "time" /\ GetEntriesValue(d, o).type # "array"
        THEN [op |-> "crawl", out |-> "throws", map |-> EmptyMap,
              sampled |-> <<>>, failed |-> 0, thrown |-> JsTypeError]
        ELSE IF failAt = 0
        THEN [op |-> "crawl", out |-> "ok", map |-> Crawl(v, d, o),
              sampled |-> entries, failed |-> 0, thrown |-> "none"]
        ELSE [op |-> "crawl", out |-> "throws", map |-> EmptyMap,
              sampled |-> SubSeq(entries, 1, failAt),
              failed |-> failAt, thrown |-> HostError]

\* faulty variant: crawl() leaves a slice timestamp behind
CrawlSyncKeepsTimestamp ==
    /\ running = 0
    /\ ~destroyed
    /\ IF Busy
       THEN ret' = Ret("crawl", "busy")
       ELSE ret' = CrawlOutcome(variant, dom, opts)
    /\ measured' = NoMeasure
    /\ frameTimestamp' = 1
    /\ UNCHANGED <<variant, dom, opts, destroyed, frameInterval, sinceStart, rafQueue,
                   nextHandle, crawls, running, sliceDone>>

\* crawl()
CrawlSync ==
    /\ running = 0
    /\ ~destroyed
    /\ IF Busy
       THEN ret' = Ret("crawl", "busy")
       ELSE ret' = CrawlOutcome(variant, dom, opts)
    /\ measured' = NoMeasure
    /\ UNCHANGED <<variant, dom, opts, destroyed, frameInterval, frameTimestamp, sinceStart, rafQueue,
                   nextHandle, crawls, running, sliceDone>>

\* clear()
Clear ==
    /\ running = 0
    /\ ~destroyed
    /\ variant # "count"
    /\ SetMachine(NoteCleared(ClearM(Machine)))
    /\ ret' = Ret("clear", "ok")
    /\ measured' = NoMeasure
    /\ UNCHANGED <<variant, dom, opts, destroyed, running, sliceDone>>

\* a _delayExec frame of the intermediate revision: a stage that throws ends
\* the chain
RunStageMid(m, f) ==
    LET c == f.crawl
    IN  CASE f.kind = "query" ->
                FilterElementsAsyncMid(m, c, QuerySelectorElements(dom, opts), opts)
          [] f.kind = "filterElements" ->
                MapElementsAsEntriesAsyncMid(m, c, FilterElementsMid(f.arg, opts), opts)
          [] f.kind = "pseudo" ->
                LET val == AddPseudoEntries(f.arg, opts)
                IN  IF val.type = "throws" THEN m
                    ELSE FilterEntriesAsyncMid(m, c, val, opts)
          [] f.kind = "filterEntries" ->
                LET val == FilterEntriesMid(f.arg, opts)
                IN  IF val.type = "throws" THEN m
                    ELSE CrawlAsyncRequestFrameMid(m, c, val)

\* the host runs the oldest requested frame callback
RunFrame ==
    /\ running = 0
    /\ rafQueue # <<>>
    /\ LET f == Head(rafQueue)
           c == f.crawl
           m == [Machine EXCEPT !.q = Tail(rafQueue)]
       IN  CASE f.kind \in StageKinds /\ destroyed ->
                    \* this._options is gone: getOption throws, the chain ends
                    /\ SetMachine(m)
                    /\ UNCHANGED <<running, sliceDone>>
             [] f.kind \in StageKinds /\ ~destroyed /\ variant = "mid" ->
                    /\ SetMachine(RunStageMid(m, f))
                    /\ UNCHANGED <<running, sliceDone>>
             [] f.kind = "query" /\ ~destroyed /\ variant # "mid" ->
                    /\ SetMachine(FilterElementsAsync(m, c, QuerySelectorElements(dom, opts)))
                    /\ UNCHANGED <<running, sliceDone>>
             [] f.kind = "filterElements" /\ ~destroyed /\ variant # "mid" ->
                    /\ SetMachine(MapElementsAsEntriesAsync(m, c, FilterElements(f.arg, opts), opts))
                    /\ UNCHANGED <<running, sliceDone>>
             [] f.kind = "pseudo" /\ ~destroyed /\ variant # "mid" ->
                    /\ SetMachine(UsePseudoElementFrame(m, c, f.arg, opts))
                    /\ UNCHANGED <<running, sliceDone>>
             [] f.kind = "filterEntries" /\ ~destroyed /\ variant # "mid" ->
                    /\ SetMachine(FilterEntriesFrame(m, c, f.arg, opts))
                    /\ UNCHANGED <<running, sliceDone>>
             [] f.kind = "done" ->
                    /\ SetMachine([m EXCEPT !.cr = InvokeOnDone(@, c)])
                    /\ UNCHANGED <<running, sliceDone>>
             [] f.kind \in {"slice", "recursive"} ->
                    /\ SetMachine(m)
                    /\ running' = c
                    /\ sliceDone' = 0
    /\ ret' = NoRet
    /\ measured' = NoMeasure
    /\ UNCHANGED <<variant, dom, opts, destroyed>>

\* what one sampled entry costs on the host clock
SampleCosts == {0, AsyncIntervalDurationDefault}

\* faulty variant: delay <= asyncIntervalDuration/1000
WithinIntervalInclusive(delay, o) ==
    /\ ~o.asyncIntervalDuration.nan
    /\ delay <= o.asyncIntervalDuration.n

\* delay < asyncIntervalDuration/1000, both read in milliseconds here
WithinInterval(delay, o) ==
    /\ ~o.asyncIntervalDuration.nan
    /\ delay < o.asyncIntervalDuration.n

\* faulty variant: entries.pop() where the code has entries.shift()
SampleLast(cr, c) ==
    LET n == Len(cr[c].entries)
    IN  [cr EXCEPT ![c].entries = SubSeq(@, 1, n - 1),
                   ![c].source = HandleEntry(variant, opts, cr[c].entries[n], @),
                   ![c].sampled = Append(@, cr[c].entries[n])]

\* entries.shift() and _handleEntry on crawl c
SampleHead(cr, c) ==
    [cr EXCEPT ![c].entries = Tail(@),
               ![c].source = HandleEntry(variant, opts, Head(cr[c].entries), @),
               ![c].sampled = Append(@, Head(cr[c].entries))]

\* faulty variant: the queue counts as exhausted one entry early
ExhaustedOffByOne(entries) == Len(entries) <= 1

\* _crawlAsyncRecursion says the queue is exhausted
Exhausted(entries) == Len(entries) = 0

\* entries.shift() for a call of _handleEntry that throws: before
\* getComputedStyle is reached, or in it or after it (handed)
ShiftOnly(cr, c, handed) ==
    [cr EXCEPT ![c].entries = Tail(@),
               ![c].sampled = IF handed THEN Append(@, Head(cr[c].entries)) ELSE @]

\* where the next step of the slice callback of crawl c throws, if it does:
\* "shift": entries is undefined (its length or its shift is read); "entry":
\* _handleEntry reads entry[0] of
\* undefined (the intermediate revision does not test entries.length);
\* "window": this.window reads ownerDocument of the deleted target; "frame":
\* the same in _requestAnimationFrame; "sampling": _handleElement
SliceFailure(c) ==
    LET entries == crawls[c].entries
    IN  IF variant # "count" /\ crawls[c].undefinedEntries THEN "shift"
        ELSE IF variant = "mid" /\ entries = <<>> THEN "entry"
        ELSE IF destroyed /\ variant # "count"
        THEN (IF entries # <<>> THEN "window" ELSE "frame")
        ELSE IF entries # <<>> /\ SamplingThrows(variant, opts, dom, Head(entries))
        THEN "sampling"
        ELSE "none"

\* the state a throwing step of the time-budgeted callback leaves behind: the
\* timestamp is taken, the entry is shifted, nothing is requested and
\* __frameInterval is what it was ("frame": clear() has run)
AfterSliceFailure(m, c, failure) ==
    LET m1 == [m EXCEPT !.ts = 1]
    IN  CASE failure \in {"shift", "entry"} -> m1
          [] failure = "window" -> [m1 EXCEPT !.cr = ShiftOnly(@, c, FALSE)]
          [] failure = "sampling" -> [m1 EXCEPT !.cr = ShiftOnly(@, c, TRUE)]
          [] failure = "frame" -> ClearM(m1)

\* _crawlAsyncCallback and _crawlAsyncRecursion, one entry of the running slice:
\* the timestamp is taken if there is none, the head entry is sampled (which
\* takes cost milliseconds), and delay = now - start decides what follows
SliceStep ==
    /\ running # 0
    /\ variant # "count"
    /\ \E cost \in SampleCosts :
        LET c == running
            sample == crawls[c].entries # <<>>
            delay == IF sample THEN sinceStart + cost ELSE sinceStart
            m == [Machine EXCEPT !.ts = 1,
                                 !.since = delay,
                                 !.cr = IF sample THEN SampleHead(@, c) ELSE @]
        IN  IF SliceFailure(c) # "none"
            THEN /\ cost = 0
                 /\ SetMachine(AfterSliceFailure(Machine, c, SliceFailure(c)))
                 /\ running' = 0
                 /\ measured' = NoMeasure
            ELSE
            /\ ~sample => cost = 0
            /\ IF Exhausted(m.cr[c].entries)
               THEN /\ SetMachine(CrawlAsyncClear(m, c))
                    /\ running' = 0
                    /\ measured' = NoMeasure
               ELSE IF WithinInterval(delay, opts)
               THEN /\ SetMachine(m)
                    /\ running' = c
                    /\ measured' = Measure(delay)
               ELSE /\ SetMachine(CrawlAsyncRequestFrame(ClearM(m), c, m.cr[c].entries))
                    /\ running' = 0
                    /\ measured' = Measure(delay)
    /\ ret' = NoRet
    /\ UNCHANGED <<variant, dom, opts, destroyed, sliceDone>>

\* faulty variant: the else before the callback is missing
CountSliceEndNoElse(m, c) ==
    LET m1 == IF m.cr[c].entries # <<>>
              THEN RequestAnimationFrame(m, "recursive", c, <<>>)
              ELSE m
    IN  [m1 EXCEPT !.cr = InvokeOnDone(@, c)]

\* the end of the frame callback of _crawlAsyncRecursive
CountSliceEnd(m, c) ==
    IF m.cr[c].entries # <<>>
    THEN RequestAnimationFrame(m, "recursive", c, <<>>)
    ELSE [m EXCEPT !.cr = InvokeOnDone(@, c)]

\* the frame callback of _crawlAsyncRecursive, one turn of its loop
CountStep ==
    /\ running # 0
    /\ variant = "count"
    /\ LET c == running
       IN  IF /\ sliceDone < AsyncMaxCount(opts)
              /\ SliceFailure(c) = "sampling"
           THEN \* _handleElement throws: the frame callback ends there
                /\ crawls' = ShiftOnly(crawls, c, TRUE)
                /\ running' = 0
                /\ sliceDone' = 0
                /\ UNCHANGED <<rafQueue, nextHandle, frameInterval, frameTimestamp,
                               sinceStart>>
           ELSE IF sliceDone < AsyncMaxCount(opts) /\ crawls[c].entries # <<>>
           THEN /\ crawls' = SampleHead(crawls, c)
                /\ sliceDone' = sliceDone + 1
                /\ UNCHANGED <<rafQueue, nextHandle, running, frameInterval, frameTimestamp,
                               sinceStart>>
           ELSE /\ SetMachine(CountSliceEnd(Machine, c))
                /\ running' = 0
                /\ sliceDone' = 0
    /\ ret' = NoRet
    /\ measured' = NoMeasure
    /\ UNCHANGED <<variant, dom, opts, destroyed>>

\* destroy(): font-crawler.js and the intermediate revision clear first and
\* delete _options and _target; the first revision of part_000 deletes
\* _options and _element and cancels nothing.  The instance is not used
\* again; the frames requested before are the host's
Destroy ==
    /\ running = 0
    /\ ~destroyed
    /\ crawls # <<>>
    /\ destroyed' = TRUE
    /\ IF variant = "count"
       THEN UNCHANGED <<rafQueue, frameInterval, frameTimestamp, sinceStart, nextHandle,
                        crawls>>
       ELSE SetMachine(NoteCleared(ClearM(Machine)))
    /\ ret' = Ret("destroy", "ok")
    /\ measured' = NoMeasure
    /\ UNCHANGED <<variant, dom, opts, running, sliceDone>>

Next ==
    \/ CrawlAsync
    \/ CrawlSync
    \/ Clear
    \/ RunFrame
    \/ SliceStep
    \/ CountStep

Spec == Init /\ [][Next]_vars

\* the trees on which getComputedStyle throws for the element found
ThrowingTrees == [target : {Target}, found : {<<2>>}, throwsFor : {2}]

\* font-crawler.js with usePseudoElement a callback or a truthy value of no
\* handled shape, with and without an entry filter
AsyncShapedOptions ==
    {o \in ShapedOptions : o.includeTarget /\ o.usePseudoElement # PseudoList}

\* every revision, on hosts whose getComputedStyle may throw, with destroy()
InitAll ==
    /\ variant \in {"time", "count", "mid"}
    /\ dom \in Trees \cup ThrowingTrees
    /\ opts \in IF variant = "time" THEN TimeOptions \cup AsyncShapedOptions
                ELSE IF variant = "count" THEN CountOptions
                ELSE MidOptions
    /\ frameInterval = 0
    /\ frameTimestamp = 0
    /\ sinceStart = 0
    /\ rafQueue = <<>>
    /\ nextHandle = 1
    /\ crawls = <<>>
    /\ running = 0
    /\ sliceDone = 0
    /\ ret = NoRet
    /\ measured = NoMeasure
    /\ destroyed = FALSE

NextAll ==
    \/ Next
    \/ Destroy

SpecAll == InitAll /\ [][NextAll]_vars

\* crawl() on every kind of tree
InitPipeline ==
    /\ variant \in {"time", "count", "mid"}
    /\ dom \in AllTrees
    /\ opts \in PipelineOptions(variant)
    /\ frameInterval = 0
    /\ frameTimestamp = 0
    /\ sinceStart = 0
    /\ rafQueue = <<>>
    /\ nextHandle = 1
    /\ crawls = <<>>
    /\ running = 0
    /\ sliceDone = 0
    /\ ret = NoRet
    /\ measured = NoMeasure
    /\ destroyed = FALSE

SpecPipeline == InitPipeline /\ [][CrawlSync]_vars

\* one crawlAsync call, never cancelled, on a host that keeps running frames
StartSingle == crawls = <<>> /\ CrawlAsync

NextSingle ==
    \/ StartSingle
    \/ RunFrame
    \/ SliceStep
    \/ CountStep

SpecSingle ==
    /\ Init
    /\ [][NextSingle]_vars
    /\ WF_vars(RunFrame)
    /\ WF_vars(SliceStep)
    /\ WF_vars(CountStep)

-----------------------------------------------------------------------------
(* The claims *)

Crawls == 1..Len(crawls)
PhaseOf(c) == Phase(rafQueue, running, c)
InFlightNow(c) == InFlight(rafQueue, running, c)
SomeInFlight == \E c \in Crawls : InFlightNow(c)

\* C1 (as claimed): a crawlAsync call made while an earlier crawl of
\* font-crawler.js is in flight (collecting its entries or between slices)
\* returns busy and starts nothing.
C1_BusyWhileInFlight ==
    [][(variant = "time" /\ SomeInFlight /\ ret'.op = "crawlAsync")
        => (ret'.out = "busy" /\ crawls' = crawls /\ rafQueue' = rafQueue)]_vars

\* C2 (as claimed): the onDone of a crawl that was pending when clear() was
\* called is never invoked.
C2_ClearedNeverDone ==
    \A c \in Crawls : crawls[c].cleared = "pending" => crawls[c].done = 0

\* C3: the map a completed crawlAsync passes to onDone is the map crawl()
\* returns on the same tree and options, however the entries were sliced.
C3_AsyncEqualsSync ==
    LET expected == Crawl(variant, dom, opts)
    IN  \A c \in Crawls : crawls[c].done > 0 => crawls[c].result = expected

C3_Witness ==
    \E c \in Crawls :
        /\ variant = "time"
        /\ crawls[c].done > 0
        /\ opts.filter.type = "function"
        /\ opts.usePseudoElement.type = "string"
        /\ Len(crawls[c].sampled) >= 2
        /\ Cardinality(DOMAIN crawls[c].result) >= 2

\* C4: once a crawl has its entries, the entries sampled so far followed by
\* the pending queue are the pipeline's sequence, and the accumulated map is
\* the fold of the sampled ones: nothing is skipped, repeated or reordered.
C4_SampledInPipelineOrder ==
    LET pipeline == PipelineEntries(variant, dom, opts)
    IN  \A c \in Crawls :
            PhaseOf(c) # "collecting" =>
                /\ crawls[c].sampled \o crawls[c].entries = pipeline
                /\ crawls[c].source = FoldEntries(variant, opts, crawls[c].sampled, EmptyMap)

C4_Witness ==
    \E c \in Crawls :
        /\ running = 0
        /\ PhaseOf(c) = "slicing"
        /\ Len(crawls[c].sampled) >= 1
        /\ Len(crawls[c].entries) >= 2

StrictlyAscending(tokens) ==
    \A i \in 1..(Len(tokens) - 1) : StrLess(tokens[i], tokens[i + 1])

MapSorted(map) == \A f \in DOMAIN map : StrictlyAscending(map[f])

\* C5: in every state, also in the middle of a slice, the tokens of every
\* family of every map (a crawl's accumulating map, the map handed to onDone,
\* the map crawl() returns) are strictly ascending in code unit order.
C5_TokensStrictlySorted ==
    /\ \A c \in Crawls : MapSorted(crawls[c].source) /\ MapSorted(crawls[c].result)
    /\ MapSorted(ret.map)

\* a slice is running and two samples of one family arrived in descending order
C5_Witness ==
    \E c \in Crawls :
        /\ running = c
        /\ \E i, j \in 1..Len(crawls[c].sampled) :
            LET a == GetComputedStyle(crawls[c].sampled[i].el, crawls[c].sampled[i].pseudo)
                b == GetComputedStyle(crawls[c].sampled[j].el, crawls[c].sampled[j].pseudo)
            IN  /\ i < j
                /\ a.fontFamily = b.fontFamily
                /\ a.fontFamily \in DOMAIN crawls[c].source
                /\ StrLess(Token(b), Token(a))

\* C6: a single crawlAsync that is never cancelled eventually has sampled its
\* whole queue, is idle again with nothing scheduled, and has invoked onDone
\* once with the finished map; onDone is never invoked twice.
C6_EventuallyDoneOnce ==
    /\ [](Len(crawls) = 1 =>
            <>(/\ Len(crawls) = 1
               /\ crawls[1].done = 1
               /\ crawls[1].result = Crawl(variant, dom, opts)
               /\ crawls[1].entries = <<>>
               /\ ~IsPending
               /\ rafQueue = <<>>
               /\ running = 0))
    /\ [](\A c \in Crawls : crawls[c].done <= 1)

C6_Witness ==
    /\ Len(crawls) = 1
    /\ crawls[1].done = 1
    /\ Len(crawls[1].sampled) >= 3
    /\ ~IsPending
    /\ rafQueue = <<>>

\* C7 (as claimed): onDone is never invoked by a step of the slice callback
\* that sampled entries; it runs in a frame callback of its own.
C7_DoneNeverInSlice ==
    [][\A c \in Crawls :
        crawls'[c].done > crawls[c].done =>
            (running # c \/ (variant = "count" /\ sliceDone = 0))]_vars

\* C8: from the invocation of a crawl's onDone on, that crawl samples no
\* entry and its map does not change.
C8_NoMutationAfterDone ==
    [][\A c \in Crawls :
        crawls'[c].done > 0 =>
            /\ crawls'[c].sampled = crawls[c].sampled
            /\ crawls'[c].source = crawls[c].source]_vars

\* onDone of one crawl was invoked and another crawl has sampled entries since
C8_Witness ==
    \E c, d \in Crawls :
        /\ c < d
        /\ crawls[c].done > 0
        /\ Len(crawls[c].sampled) >= 2
        /\ running = d
        /\ Len(crawls[d].sampled) >= 1

\* C9 (as claimed): crawl() called while an async crawl of font-crawler.js is
\* in flight raises busy and samples nothing.
C9_CrawlBusyWhileInFlight ==
    [][(variant = "time" /\ SomeInFlight /\ ret'.op = "crawl")
        => (ret'.out = "busy" /\ ret'.sampled = <<>>)]_vars

\* C10 (as claimed): isPending is true exactly while an async crawl is in
\* flight, entry collection included.
C10_PendingIffInFlight ==
    variant = "time" => (IsPending <=> SomeInFlight)

\* this step is the host running the oldest frame callback, one of crawl c
FrameOfRuns(c) ==
    /\ running = 0
    /\ rafQueue # <<>>
    /\ Head(rafQueue).crawl = c
    /\ ret'.op = "none"
    /\ rafQueue' # rafQueue

\* C11 (as claimed): once clear() has returned while a crawl was pending, no
\* frame callback of that crawl runs any more and no further entry is sampled
\* for it.
C11_NoCallbackAfterClear ==
    [][\A c \in Crawls :
        crawls[c].cleared = "pending" =>
            /\ ~FrameOfRuns(c)
            /\ crawls'[c].sampled = crawls[c].sampled]_vars

\* C12 (as claimed): at the moment onDone is invoked isPending is false, so that
\* a crawl() or crawlAsync() made from inside onDone is not refused as busy.
C12_IdleWhenDone ==
    [][\A c \in Crawls : crawls'[c].done > crawls[c].done => ~Busy]_vars

\* the budget a configured number stands for according to the documentation
BudgetOrDefault(num, default) ==
    IF num.nan \/ num.n <= 0 THEN default ELSE num.n

\* C13 (as claimed): a budget that is zero, negative or not a number bounds
\* the slices exactly as the default does: a time-budgeted callback goes on
\* after an entry iff the measured delay is below the interval or else 16 ms,
\* a count-budgeted callback ends only at its budget or else 1000 entries, or
\* at the end of the queue.
C13_InvalidBudgetIsDefault ==
    /\ [][(variant = "time" /\ measured'.taken) =>
            (running' = running <=>
                measured'.delay < BudgetOrDefault(opts.asyncIntervalDuration,
                                                  AsyncIntervalDurationDefault))]_vars
    /\ [][(variant = "count" /\ running # 0 /\ running' = 0) =>
            \/ sliceDone = BudgetOrDefault(opts.asyncMax, AsyncMaxDefault)
            \/ crawls[running].entries = <<>>]_vars

\* the frames of crawl c among the requested ones
FramesOf(q, c) == SelectSeq(q, LAMBDA f : f.crawl = c)

\* C14: in the time-budgeted scheduler a callback starts without a slice
\* timestamp and takes one before its first sample; after a sampled entry with
\* entries remaining it goes on in the same callback iff the delay since that
\* timestamp is below the configured interval, and otherwise the timestamp is
\* reset, one slice of the crawl is requested and the callback is over.
C14_SliceBoundedByInterval ==
    /\ [](variant = "time" /\ running = 0 => frameTimestamp = 0 /\ sinceStart = 0)
    /\ [][(variant = "time" /\ running # 0 /\ crawls'[running].entries # <<>>) =>
            LET c == running
                below == /\ ~opts.asyncIntervalDuration.nan
                         /\ measured'.delay < opts.asyncIntervalDuration.n
            IN  /\ Len(crawls'[c].sampled) = Len(crawls[c].sampled) + 1
                /\ measured'.taken
                /\ measured'.delay >= sinceStart
                /\ frameTimestamp = 0 => sinceStart = 0
                /\ IF below
                   THEN /\ running' = c
                        /\ frameTimestamp' = 1
                        /\ sinceStart' = measured'.delay
                        /\ rafQueue' = rafQueue
                   ELSE /\ running' = 0
                        /\ frameTimestamp' = 0
                        /\ Len(FramesOf(rafQueue', c)) = Len(FramesOf(rafQueue, c)) + 1
                        /\ rafQueue'[Len(rafQueue')].kind = "slice"
                        /\ rafQueue'[Len(rafQueue')].crawl = c
                        /\ frameInterval' = rafQueue'[Len(rafQueue')].id]_vars

\* a callback went on after one entry and yielded after the next
C14_Witness ==
    \E c \in Crawls :
        /\ variant = "time"
        /\ running = 0
        /\ measured.taken
        /\ measured.delay >= opts.asyncIntervalDuration.n
        /\ ~opts.asyncIntervalDuration.nan
        /\ opts.asyncIntervalDuration.n > 0
        /\ Len(crawls[c].sampled) >= 2
        /\ crawls[c].entries # <<>>
        /\ HasFrame(rafQueue, c, {"slice"})
        /\ frameTimestamp = 0

\* C15: in the count-budgeted scheduler with a budget n >= 1 a callback
\* samples one entry after the other until it has sampled n or the queue is
\* empty, so min(n, r) of the r it found; then it requests exactly one next
\* slice if entries remain and completes the crawl otherwise.
C15_SliceBoundedByCount ==
    /\ [](variant = "count" /\ running = 0 => sliceDone = 0)
    /\ [][(variant = "count" /\ running # 0 /\ ~opts.asyncMax.nan /\ opts.asyncMax.n >= 1) =>
            LET c == running
                n == opts.asyncMax.n
            IN  /\ sliceDone <= n
                /\ IF sliceDone < n /\ crawls[c].entries # <<>>
                   THEN /\ running' = c
                        /\ sliceDone' = sliceDone + 1
                        /\ crawls'[c].sampled = Append(crawls[c].sampled, Head(crawls[c].entries))
                        /\ crawls'[c].entries = Tail(crawls[c].entries)
                        /\ crawls'[c].done = crawls[c].done
                        /\ rafQueue' = rafQueue
                   ELSE /\ running' = 0
                        /\ crawls'[c].sampled = crawls[c].sampled
                        /\ crawls'[c].entries = crawls[c].entries
                        /\ IF crawls[c].entries # <<>>
                           THEN /\ rafQueue' = Append(rafQueue, rafQueue'[Len(rafQueue')])
                                /\ rafQueue'[Len(rafQueue')].crawl = c
                                /\ rafQueue'[Len(rafQueue')].kind = "recursive"
                                /\ crawls'[c].done = crawls[c].done
                           ELSE /\ rafQueue' = rafQueue
                                /\ crawls'[c].done = crawls[c].done + 1]_vars

\* a callback with budget 2 has sampled two of more than two entries and has
\* requested the next slice
C15_Witness ==
    \E c \in Crawls :
        /\ variant = "count"
        /\ ~opts.asyncMax.nan
        /\ opts.asyncMax.n = 2
        /\ running = 0
        /\ Len(crawls[c].sampled) = 2
        /\ crawls[c].entries # <<>>
        /\ HasFrame(rafQueue, c, {"recursive"})

\* what a crawl's closure holds, without the history kept for the claims
Closure(cr) ==
    [c \in 1..Len(cr) |-> [entries |-> cr[c].entries, source |-> cr[c].source,
                           sampled |-> cr[c].sampled, done |-> cr[c].done,
                           result |-> cr[c].result]]

\* C16: clear() called while no crawl is pending cancels nothing and changes
\* nothing (so any number of calls leave what one call leaves), and crawl()
\* and crawlAsync() are not refused afterwards.
C16_ClearIdleNoOp ==
    [][(variant = "time" /\ ~SomeInFlight /\ ret'.op = "clear") =>
        /\ rafQueue' = rafQueue
        /\ frameInterval' = frameInterval
        /\ frameTimestamp' = frameTimestamp
        /\ sinceStart' = sinceStart
        /\ nextHandle' = nextHandle
        /\ Closure(crawls') = Closure(crawls)
        /\ frameInterval' = 0]_vars

\* clear() was called while the completion of a finished crawl was still to be
\* delivered, and changed nothing
C16_Witness ==
    \E c \in Crawls :
        /\ variant = "time"
        /\ ret.op = "clear"
        /\ ~SomeInFlight
        /\ PhaseOf(c) = "completing"
        /\ crawls[c].cleared = "completing"
        /\ Len(crawls[c].sampled) >= 1

\* C17: crawl() called with no async crawl in flight ends in the calling turn
\* with the map (unless the host throws) and leaves the scheduler as it was:
\* no frame requested, no handle, no timestamp, isPending false before and
\* after.
C17_CrawlLeavesSchedulerAlone ==
    [][(ret'.op = "crawl" /\ ~SomeInFlight) =>
        /\ ret'.out # "busy"
        /\ ret'.failed = 0 => (ret'.out = "ok" /\ ret'.map = Crawl(variant, dom, opts))
        /\ ~IsPending
        /\ frameInterval' = 0
        /\ frameTimestamp' = 0
        /\ sinceStart' = sinceStart
        /\ rafQueue' = rafQueue
        /\ nextHandle' = nextHandle
        /\ crawls' = crawls
        /\ running' = 0]_vars

\* crawl() has returned a map of two families while the completion of an
\* earlier async crawl was still to be delivered
C17_Witness ==
    /\ ret.op = "crawl"
    /\ ret.out = "ok"
    /\ Cardinality(DOMAIN ret.map) >= 2
    /\ ~SomeInFlight
    /\ rafQueue # <<>>

\* C19: when getComputedStyle throws during crawl(), the caller catches what
\* the host threw, every entry up to the failing one was handed to
\* getComputedStyle once and none after it, no map is returned, and the
\* scheduler is untouched, so that the next crawl() or crawlAsync() is not
\* refused.
C19_SyncFailurePropagates ==
    [][(ret'.op = "crawl" /\ ret'.failed # 0) =>
        /\ ret'.out = "throws"
        /\ ret'.thrown = HostError
        /\ ret'.map = EmptyMap
        /\ ret'.sampled = SubSeq(PipelineEntries(variant, dom, opts), 1, ret'.failed)
        /\ frameInterval' = frameInterval
        /\ frameTimestamp' = frameTimestamp
        /\ rafQueue' = rafQueue
        /\ crawls' = crawls
        /\ ~Busy']_vars

\* crawl() threw at the third entry or later
C19_Witness ==
    /\ ret.op = "crawl"
    /\ ret.out = "throws"
    /\ ret.failed >= 3
    /\ Len(ret.sampled) = ret.failed
    /\ ~IsPending

\* C18 (as claimed): when crawlAsync returns, nothing of the crawl has
\* happened yet: its closure holds no entries, no sample and no map, and its
\* callback was not called.
C18_NothingBeforeReturn ==
    [][(ret'.op = "crawlAsync" /\ ret'.out = "ok") =>
        /\ Len(crawls') = Len(crawls) + 1
        /\ crawls'[Len(crawls')] = NewCrawl]_vars

\* a text-node child of element e that counts: its trimmed content is not
\* empty, or it is blank and the trimmed text content of e is not empty
HasMeaningfulTextChild(e) ==
    \E i \in 1..Len(Doc[e].kids) :
        \/ Doc[e].kids[i] = "text"
        \/ Doc[e].kids[i] = "ws" /\ Doc[e].text

\* C20: the element filter of font-crawler.js keeps an element iff it matches
\* the include selector, or it does not match the exclude selector and has a
\* meaningful text-node child; the elements kept stay in their order.
C20_ElementFilter ==
    variant = "time" =>
        LET elements == QuerySelectorElements(dom, opts)
        IN  /\ FilterElements(elements, opts) =
                 SelectSeq(elements,
                           LAMBDA e : Doc[e].inc \/ (~Doc[e].exc /\ HasMeaningfulTextChild(e)))
            /\ (ret.op = "crawl" /\ ret.out = "ok" /\ opts.filter.type = "null") =>
                 \A e \in 1..Len(Doc) :
                     (\E i \in 1..Len(ret.sampled) : ret.sampled[i].el = e) <=>
                         /\ \E i \in 1..Len(elements) : elements[i] = e
                         /\ Doc[e].inc \/ (~Doc[e].exc /\ HasMeaningfulTextChild(e))

\* crawl() has sampled the target, whose text nodes are blank separators in a
\* non-empty text, and has dropped a selected element without text-node child
C20_Witness ==
    /\ variant = "time"
    /\ ret.op = "crawl"
    /\ ret.out = "ok"
    /\ opts.includeTarget
    /\ dom.found # <<>>
    /\ Doc[dom.found[1]].kids = <<"elem">>
    /\ ~Doc[dom.found[1]].inc
    /\ \E i \in 1..Len(ret.sampled) : ret.sampled[i].el = Target
    /\ \A i \in 1..Len(ret.sampled) : ret.sampled[i].el # dom.found[1]

\* the names an option string configures, in its order: the pieces between
\* its commas, without blanks and leading colons
ConfiguredNames(str) ==
    LET pieces == SplitAt(str, <<>>)
    IN  [i \in 1..Len(pieces) |->
            DropLeading(SelectSeq(pieces[i], LAMBDA c : c # " "), ":")]

\* n base entries with k names: n*(1+k) entries, each base entry followed by
\* its k entries (element, "::" name)
Expanded(base, names) ==
    LET k == Len(names)
    IN  [p \in 1..(Len(base) * (1 + k)) |->
            LET i == ((p - 1) \div (1 + k)) + 1
                j == (p - 1) % (1 + k)
            IN  IF j = 0 THEN base[i]
                ELSE Entry(base[i].el, <<":", ":">> \o names[j])]

\* the expansion stage of revision v does to the base entries of the current
\* tree what Expanded says, and a crawl() that returns has sampled the result
ExpansionAsClaimed(v) ==
    LET names == ConfiguredNames(opts.usePseudoElement.str)
        elements == QuerySelectorElements(dom, opts)
        plain == opts.filter.type = "null"
        returned == ret.op = "crawl" /\ ret.out = "ok" /\ plain
    IN  CASE v = "time" ->
                LET base == MapElementsAsEntries(FilterElements(elements, opts))
                IN  /\ UsePseudoElementEntries(base, opts) = Expanded(base, names)
                    /\ returned => ret.sampled = Expanded(base, names)
          [] v = "mid" ->
                LET base == MapElementsAsEntries(FilterElementsMid(elements, opts))
                IN  /\ AddPseudoEntries(base, opts) = ArrayValue(Expanded(base, names))
                    /\ returned => ret.sampled = Expanded(base, names)
          [] v = "count" ->
                (plain /\ ~opts.useTextNodesOnly) =>
                    /\ ElementWithPseudoEntries(dom, opts) =
                           Expanded(MapElementsAsEntries(elements), names)
                    /\ returned =>
                           ret.sampled = Expanded(MapElementsAsEntries(elements), names)

ExpansionOfOtherRevisions ==
    (opts.usePseudoElement.type = "string" /\ variant # "mid") => ExpansionAsClaimed(variant)

\* the position of element e in the selection
PositionIn(selection, e) == CHOOSE i \in 1..Len(selection) : selection[i] = e

\* entries come in the order in which their elements were selected
InSelectionOrder(entries, selection) ==
    \A i, j \in 1..Len(entries) :
        i < j => PositionIn(selection, entries[i].el) <= PositionIn(selection, entries[j].el)

\* the names configured for the expansion stage (none without the option)
NamesOf(o) ==
    IF o.usePseudoElement.type = "string" THEN ConfiguredNames(o.usePseudoElement.str)
    ELSE <<>>

\* the predicate of the entry filter
Accepts(o, entry) == o.filter.type = "null" \/ entry \notin o.filter.rejects

\* C22: the entries crawl() samples are the selection, cut down by the
\* element filter, turned into base entries, expanded by the pseudo-element
\* names and cut down by the entry predicate, in this order; they keep the
\* order of the selection; the predicate is called once for each pair of a
\* surviving element and exactly the pairs it rejects are dropped; the frames
\* of crawlAsync hand on what the synchronous stages compute, and the first
\* slice is requested with the same entries.
C22_StagesInOrder ==
    LET selection == QuerySelectorElements(dom, opts)
        kept == SelectSeq(selection,
                    LAMBDA e : IF variant = "time" THEN KeepElement(e, opts)
                               ELSE ~opts.useTextNodesOnly \/ HasTextNodeChildSimple(e))
        base == [i \in 1..Len(kept) |-> Entry(kept[i], Null)]
        expanded == Expanded(base, NamesOf(opts))
        final == SelectSeq(expanded, LAMBDA entry : Accepts(opts, entry))
        calls == IF variant = "time"
                 THEN PredicateCalls(UsePseudoElementEntries(base, opts), opts)
                 ELSE PredicateCallsSimple(Expanded(MapElementsAsEntries(selection),
                                                    NamesOf(opts)), opts)
    IN  /\ (ret.op = "crawl" /\ ret.out = "ok") =>
               /\ ret.sampled = final
               /\ InSelectionOrder(final, selection)
               /\ opts.filter.type = "function" => calls = expanded
        /\ \A i \in 1..Len(rafQueue) :
               LET f == rafQueue[i]
               IN  /\ f.kind = "filterElements" => f.arg = selection
                   /\ f.kind = "pseudo" => f.arg = base
                   /\ f.kind = "filterEntries" => f.arg = expanded
        /\ \A c \in Crawls :
               (crawls[c].sampled = <<>> /\ HasFrame(rafQueue, c, SliceKinds))
                   => crawls[c].entries = final

\* the frame of the entry filter is requested with the expanded entries, of
\* which the predicate rejects the pseudo-element of the target
C22_Witness ==
    /\ variant = "time"
    /\ \E i \in 1..Len(rafQueue) :
          /\ rafQueue[i].kind = "filterEntries"
          /\ Len(rafQueue[i].arg) >= 4
          /\ \E k \in 1..Len(rafQueue[i].arg) : ~Accepts(opts, rafQueue[i].arg[k])
    /\ \E c \in Crawls : PhaseOf(c) = "over" /\ Len(crawls[c].sampled) = 2

\* the family sampled for an entry is in the exclusion list
SampledFamilyExcluded(entry) ==
    \E i \in 1..Len(opts.excludeFontFamilies.items) :
        opts.excludeFontFamilies.items[i] = GetComputedStyle(entry.el, entry.pseudo).fontFamily

\* the map of the sampled entries had the excluded ones not been among them
\* and no exclusion list been configured
MapWithoutExcluded(sampled) ==
    FoldEntries(variant, [opts EXCEPT !.excludeFontFamilies = NoFamilies],
                SelectSeq(sampled, LAMBDA entry : ~SampledFamilyExcluded(entry)), EmptyMap)

\* C23: with a family exclusion list configured, at every point of a crawl
\* and in the map crawl() returns, no listed family is a key of the map, and
\* the map is the one the sampled entries of the other families give alone.
C23_ExcludedFamiliesLeaveNoTrace ==
    (variant = "time" /\ opts.excludeFontFamilies.isArray) =>
        LET listed == {opts.excludeFontFamilies.items[i] :
                          i \in 1..Len(opts.excludeFontFamilies.items)}
        IN  /\ \A c \in Crawls :
                   /\ DOMAIN crawls[c].source \cap listed = {}
                   /\ crawls[c].source = MapWithoutExcluded(crawls[c].sampled)
                   /\ DOMAIN crawls[c].result \cap listed = {}
            /\ (ret.op = "crawl" /\ ret.out = "ok") =>
                   /\ DOMAIN ret.map \cap listed = {}
                   /\ ret.map = MapWithoutExcluded(ret.sampled)

\* a crawl passed its map to its callback after sampling an entry of a
\* listed family first and entries of another family after it
C23_Witness ==
    /\ variant = "time"
    /\ opts.excludeFontFamilies.isArray
    /\ \E c \in Crawls :
          /\ crawls[c].done = 1
          /\ \E i \in 1..Len(crawls[c].sampled) : SampledFamilyExcluded(crawls[c].sampled[i])
          /\ \E i \in 1..Len(crawls[c].sampled) : ~SampledFamilyExcluded(crawls[c].sampled[i])
          /\ crawls[c].result # EmptyMap

\* the strings of S in ascending order
RECURSIVE Ascending(_)
Ascending(S) ==
    IF S = {} THEN <<>>
    ELSE LET least == CHOOSE x \in S : \A y \in S \ {x} : StrLess(x, y)
         IN  <<least>> \o Ascending(S \ {least})

\* weight, followed by the marker iff the style is not "normal"
TokenAsClaimed(css) ==
    IF css.fontStyle # "normal" THEN Append(css.fontWeight, CharI) ELSE css.fontWeight

\* one key for each family sampled, holding the tokens of its samples
MapAsClaimed(sampled) ==
    LET styles == {GetComputedStyle(sampled[i].el, sampled[i].pseudo) : i \in 1..Len(sampled)}
    IN  [f \in {css.fontFamily : css \in styles} |->
            Ascending({TokenAsClaimed(css) : css \in {x \in styles : x.fontFamily = f}})]

Reverse(s) == [i \in 1..Len(s) |-> s[Len(s) + 1 - i]]

\* C24 (as claimed): where getComputedStyle does not throw and no family is
\* excluded, crawl() returns a map with one key for each family sampled,
\* created when the family is first met, holding the tokens weight or
\* weight + "i" (style not normal) of its samples.
C24_TokenAndFamilyKey ==
    (/\ variant = "time"
     /\ ret.op = "crawl"
     /\ dom.throwsFor = 0
     /\ ~opts.excludeFontFamilies.isArray) =>
        /\ ret.out = "ok"
        /\ ret.map = MapAsClaimed(ret.sampled)

\* the same where crawl() returned, and the map does not depend on the order
\* of the samples
TokensOfRecordedFamilies ==
    (/\ ret.op = "crawl"
     /\ ret.out = "ok"
     /\ ~opts.excludeFontFamilies.isArray) =>
        /\ ret.map = MapAsClaimed(ret.sampled)
        /\ FoldEntries(variant, opts, Reverse(ret.sampled), EmptyMap) = ret.map

\* the two examples: Arial 700 italic alone, and Georgia 400 normal with
\* Georgia 400 italic in both orders
TokenExamples ==
    LET arial == <<Entry(2, <<":", ":", "before">>)>>
        georgia == <<Entry(1, <<":", ":", "before">>), Entry(2, Null)>>
    IN  ~opts.excludeFontFamilies.isArray =>
        /\ FoldEntries(variant, opts, arial, EmptyMap) = ("Arial" :> <<W700 \o <<CharI>> >>)
        /\ FoldEntries(variant, opts, georgia, EmptyMap) =
               ("Georgia" :> <<W400, W400 \o <<CharI>> >>)
        /\ FoldEntries(variant, opts, Reverse(georgia), EmptyMap) =
               ("Georgia" :> <<W400, W400 \o <<CharI>> >>)

\* C29 (as claimed): once clear() has returned, the callback of no crawl
\* started before it is invoked, wherever that crawl stood: collecting its
\* entries, between slices, or past its last entry with the completion frame
\* requested and not yet run.
C29_NoDoneAfterClear ==
    [][\A c \in Crawls :
        crawls[c].cleared # "no" => crawls'[c].done = crawls[c].done]_vars

\* the case of a single crawl whose completion frame was already requested
DoneFrameSurvivesClear ==
    [][\A c \in Crawls :
        (Len(crawls) = 1 /\ crawls[c].cleared = "completing")
            => crawls'[c].done = crawls[c].done]_vars

\* C27: a slice callback never ends on a non-empty queue without having
\* sampled: each step of a time-budgeted callback that finds an entry samples
\* it before the delay is looked at, and a count-budgeted callback ends on a
\* non-empty queue only after at least one sample, whatever the budget is
\* (zero, negative and NaN included).  Hence the queue is shorter at each
\* slice than at the one before, and n entries take at most n slices.
C27_SliceSamplesOne ==
    [][\A c \in Crawls :
        (running = c /\ crawls[c].entries # <<>>) =>
            /\ variant = "time" =>
                   /\ Len(crawls'[c].entries) = Len(crawls[c].entries) - 1
                   /\ Len(crawls'[c].sampled) = Len(crawls[c].sampled) + 1
            /\ (variant = "count" /\ running' = 0) => sliceDone >= 1
            /\ (variant = "count" /\ running' = c) =>
                   Len(crawls'[c].entries) = Len(crawls[c].entries) - 1]_vars

\* a callback whose budget is zero has sampled one entry and yielded with
\* entries left
C27_Witness ==
    /\ running = 0
    /\ variant = "time"
    /\ opts.asyncIntervalDuration = Num(0)
    /\ \E c \in Crawls :
          /\ Len(crawls[c].sampled) = 1
          /\ crawls[c].entries # <<>>
          /\ HasFrame(rafQueue, c, SliceKinds)

\* the requested slice frames of crawl c
SliceFramesOf(q, c) == SelectSeq(q, LAMBDA f : f.crawl = c /\ f.kind \in SliceKinds)

\* C26 (as claimed): where clear() was not called on a crawl in progress, a
\* step of the slice callback of one accepted crawl (its yield or its
\* completion included) leaves the requested slice frame of every other
\* accepted crawl in place, so that each accepted crawl gets to its onDone.
C26_SlicesOfOthersSurvive ==
    [][\A c, d \in Crawls :
        (/\ c # d
         /\ running = c
         /\ \A k \in Crawls : crawls[k].cleared = "no")
            => SliceFramesOf(rafQueue', d) = SliceFramesOf(rafQueue, d)]_vars

\* an accepted crawl that was never cleared is left with entries to sample
\* and no frame to sample them in
StrandedCrawl ==
    \E c \in Crawls :
        /\ \A k \in Crawls : crawls[k].cleared = "no"
        /\ crawls[c].entries # <<>>
        /\ crawls[c].done = 0
        /\ running = 0
        /\ rafQueue = <<>>

\* C25 (as claimed): while isPending is true there is work outstanding: a
\* slice callback is executing, or a scheduling callback is requested and
\* neither run nor cancelled yet; also after sampling threw inside a slice.
C25_PendingHasWork ==
    (variant = "time" /\ IsPending) =>
        \/ running # 0
        \/ \E i \in 1..Len(rafQueue) :
              rafQueue[i].kind \in SliceKinds /\ rafQueue[i].id = frameInterval

\* the same where no frame callback has thrown: sampling throws for no
\* entry, the expansion stage has handed on an array and destroy() was not
\* called
PendingHasWorkWhileNothingThrows ==
    (dom.throwsFor = 0 /\ ~destroyed /\ opts.usePseudoElement.type \in HandledShapes)
        => C25_PendingHasWork

\* the entry pipeline gives the empty sequence on the current tree
EmptyPipeline ==
    /\ PipelineEntries(variant, dom, opts) = <<>>
    /\ variant = "mid" => GetEntriesMid(dom, opts).type = "array"
    /\ variant = "time" => GetEntriesValue(dom, opts).type = "array"

\* what C28 says of revision set V
EmptyPipelineHandled(V) ==
    (variant \in V /\ EmptyPipeline /\ ~destroyed) =>
        /\ (ret'.op = "crawl" /\ ret'.out # "busy") =>
               ret'.out = "ok" /\ ret'.map = EmptyMap
        /\ \A c \in Crawls :
               /\ crawls'[c].sampled = <<>>
               /\ crawls'[c].done <= 1
               /\ crawls'[c].done = 1 => crawls'[c].result = EmptyMap
               /\ (running = c /\ running' = 0) =>
                      IF variant = "count" THEN crawls'[c].done = 1
                      ELSE ~IsPending' /\ HasFrame(rafQueue', c, {"done"})

\* C28 (as claimed): on a tree whose entry pipeline is empty, crawl() returns
\* the empty map, and the slice callback of crawlAsync samples nothing, leaves
\* the crawler idle and dispatches onDone, which is called once with the
\* empty map.
C28_EmptyPipeline == [][EmptyPipelineHandled({"time", "count", "mid"})]_vars

\* the same for font-crawler.js and the first revision of part_000 only
EmptyPipelineOfOtherRevisions == [][EmptyPipelineHandled({"time", "count"})]_vars

\* an onDone call with the empty map after an empty pipeline
EmptyPipelineDone ==
    /\ EmptyPipeline
    /\ variant = "time"
    /\ \E c \in Crawls : crawls[c].done = 1 /\ crawls[c].result = EmptyMap

\* C30 (as claimed): once destroy() has returned, no frame callback of the
\* crawler runs (so none throws), no entry is sampled or taken from a queue,
\* and no onDone is invoked, wherever the crawls stood.
C30_DestroyCancels ==
    [][destroyed =>
        /\ rafQueue' = rafQueue
        /\ running' = running
        /\ \A c \in Crawls :
               /\ crawls'[c].sampled = crawls[c].sampled
               /\ crawls'[c].entries = crawls[c].entries
               /\ crawls'[c].done = crawls[c].done]_vars

\* parts of it: no onDone after destroy(); no sample after destroy(); no
\* frame that throws after destroy() during entry collection
DestroyedNeverDone ==
    [][(destroyed /\ variant = "time") =>
        \A c \in Crawls : crawls'[c].done = crawls[c].done]_vars

DestroyedNeverSamples ==
    [][destroyed => \A c \in Crawls : crawls'[c].sampled = crawls[c].sampled]_vars

DestroyedNoThrowingFrame ==
    [][(destroyed /\ variant = "time" /\ rafQueue # <<>> /\ Head(rafQueue).kind \in StageKinds)
        => rafQueue' = rafQueue]_vars

\* the base entries among entries, in their order
BaseEntriesOf(entries) == SelectSeq(entries, LAMBDA entry : entry.pseudo = Null)

\* the base entries the expansion stage of revision v is called with on the
\* current tree, and what it returns
ExpansionStage(v) ==
    LET elements == QuerySelectorElements(dom, opts)
    IN  IF v = "time"
        THEN LET base == MapElementsAsEntries(FilterElements(elements, opts))
             IN  [base |-> base, val |-> UsePseudoElementValue(base, opts)]
        ELSE LET base == MapElementsAsEntries(FilterElementsMid(elements, opts))
             IN  [base |-> base, val |-> AddPseudoEntries(base, opts)]

\* the expansion stage of revision v returns an array holding every base
\* entry in its original order, and a crawl() that throws has thrown while
\* sampling an entry, not in the pipeline
ShapeTolerated(v) ==
    LET stage == ExpansionStage(v)
    IN  /\ stage.val.type = "array"
        /\ BaseEntriesOf(stage.val.items) = stage.base
        /\ (ret.op = "crawl" /\ ret.out = "throws") => ret.failed # 0

\* C31 (as claimed): whatever usePseudoElement is (none, a delimited string,
\* a list, a per-element callback, a callback returning neither a string nor
\* a list, any other truthy value), the expansion stage returns a sequence of
\* entries that holds every base entry in its original order, and crawl()
\* does not fail because of the option's shape.
C31_AnyShapeExpands ==
    variant \in {"time", "mid"} => ShapeTolerated(variant)

\* the same for font-crawler.js and the shapes for which
\* _usePseudoElementEntries has a return statement
HandledShapesExpand ==
    (variant = "time" /\ opts.usePseudoElement.type \in HandledShapes)
        => ShapeTolerated("time")

\* crawl() has returned with a callback that gave a string, a list and a
\* value that is neither: the target has its ::before entry and the form
\* control only its base entry
CallbackShapesSampled ==
    /\ variant = "time"
    /\ opts.usePseudoElement = PseudoCallback
    /\ opts.filter.type = "null"
    /\ dom.found = <<3>>
    /\ ret.op = "crawl"
    /\ ret.out = "ok"
    /\ ret.sampled = <<Entry(Target, Null), Entry(Target, <<":", ":", "before">>),
                       Entry(3, Null)>>

\* crawl() has returned with the list ["before", ":after"]
ListShapeSampled ==
    /\ variant = "time"
    /\ opts.usePseudoElement = PseudoList
    /\ opts.filter.type = "null"
    /\ ~opts.includeTarget
    /\ dom.found = <<2>>
    /\ ret.op = "crawl"
    /\ ret.out = "ok"
    /\ ret.sampled = <<Entry(2, Null), Entry(2, <<":", ":", "before">>),
                       Entry(2, <<":", ":", "after">>)>>

\* crawl() of font-crawler.js has thrown in the pipeline on a tree whose
\* sampling throws nowhere
OtherShapeThrows ==
    /\ variant = "time"
    /\ opts.usePseudoElement = OtherOption
    /\ dom.throwsFor = 0
    /\ ret.op = "crawl"
    /\ ret.out = "throws"
    /\ ret.failed = 0
    /\ ret.thrown = JsTypeError

\* crawlAsync with a truthy value of no handled shape: onDone is never
\* invoked
OtherShapeNeverDone ==
    (variant = "time" /\ opts.usePseudoElement = OtherOption)
        => \A c \in Crawls : crawls[c].done = 0

\* ... and without an entry filter the crawler is left pending with no frame
\* requested and nothing sampled
OtherShapeStranded ==
    /\ variant = "time"
    /\ opts.usePseudoElement = OtherOption
    /\ ~destroyed
    /\ crawls # <<>>
    /\ IsPending
    /\ rafQueue = <<>>
    /\ running = 0
    /\ \A c \in Crawls : crawls[c].sampled = <<>>

\* ... and with an entry filter the chain has ended in the filter's frame: no
\* frame is requested and the crawler is not pending
OtherShapeChainEnded ==
    /\ variant = "time"
    /\ opts.usePseudoElement = OtherOption
    /\ opts.filter.type = "function"
    /\ ~destroyed
    /\ crawls # <<>>
    /\ ~IsPending
    /\ rafQueue = <<>>
    /\ running = 0
    /\ ret.op = "none"

\* crawlAsync with a callback returning every shape completes
CallbackShapesDone ==
    /\ variant = "time"
    /\ opts.usePseudoElement = PseudoCallback
    /\ \E c \in Crawls : crawls[c].done = 1
====
